---------------------------- MODULE Spec2Model ----------------------------
(***************************************************************************)
(* Model of js/access-control.js: the client-side category gate of the     *)
(* blog (AccessControl object).                                            *)
(*                                                                         *)
(* JavaScript values are modelled as follows.                              *)
(*   - a string that is compared or encoded (passphrases, credentials) is  *)
(*     the sequence of its UTF-16 code units;                              *)
(*   - an object is a function whose DOMAIN is the set of its own keys, so *)
(*     "key absent" and "key present" are different values;                *)
(*   - a URL is the sequence of its path segments;                         *)
(*   - null is the record Null.                                            *)
(***************************************************************************)
EXTENDS Integers, Sequences, FiniteSets, TLC

\* ------------------------------------------------------------------------
\* Strings and btoa
\* ------------------------------------------------------------------------

\* ""
empty == << >>
\* "secret"
secret == << 115, 101, 99, 114, 101, 116 >>
\* "wrong"
wrong == << 119, 114, 111, 110, 103 >>
\* "c2VjcmV0", the base64 text of "secret"
secretB64 == << 99, 50, 86, 106, 99, 109, 86, 48 >>
\* a one-character passphrase outside Latin-1 (U+5BC6)
wide == << 23494 >>

\* The passphrases a visitor types into a prompt.
Passphrases == { empty, secret, wrong, secretB64, wide }

\* The i-th character of the base64 alphabet A-Z a-z 0-9 + /
B64Char(n) ==
    IF n < 26 THEN 65 + n
    ELSE IF n < 52 THEN 97 + (n - 26)
    ELSE IF n < 62 THEN 48 + (n - 52)
    ELSE IF n = 62 THEN 43 ELSE 47

\* btoa throws InvalidCharacterError on a code unit above 0xFF.
btoaThrows(s) == \E i \in 1..Len(s) : s[i] > 255

\* btoa on a string of Latin-1 characters: standard base64 with = padding.
RECURSIVE btoaBytes(_)
btoaBytes(s) ==
    IF Len(s) = 0 THEN << >>
    ELSE IF Len(s) = 1 THEN
        << B64Char(s[1] \div 4), B64Char((s[1] % 4) * 16), 61, 61 >>
    ELSE IF Len(s) = 2 THEN
        << B64Char(s[1] \div 4),
           B64Char((s[1] % 4) * 16 + (s[2] \div 16)),
           B64Char((s[2] % 16) * 4), 61 >>
    ELSE
        << B64Char(s[1] \div 4),
           B64Char((s[1] % 4) * 16 + (s[2] \div 16)),
           B64Char((s[2] % 16) * 4 + (s[3] \div 64)),
           B64Char(s[3] % 64) >> \o btoaBytes(SubSeq(s, 4, Len(s)))

btoa(s) == btoaBytes(s)

\* ------------------------------------------------------------------------
\* Configuration objects
\* ------------------------------------------------------------------------

Null == [null |-> TRUE]

CategoryNames == { "diary", "notes", "misc" }

\* The categories that configurations list and direct calls store tokens for.
ConfigCategories == { "diary", "notes" }

Has(obj, key) == key \in DOMAIN obj

\* JavaScript truthiness of obj[key] for the value kinds the configuration
\* holds: undefined (key absent), booleans, strings, objects.
TruthyBool(obj, key) == Has(obj, key) /\ obj[key] = TRUE
TruthyString(obj, key) == Has(obj, key) /\ obj[key] # empty

\* isCategoryProtected as it would be if either list sufficed: the entry in
\* categories does not return early.
isCategoryProtectedEitherList(config, category) ==
    IF config = Null \/ ~TruthyBool(config, "enable") THEN FALSE
    ELSE \/ /\ Has(config, "categories") /\ Has(config.categories, category)
            /\ ~TruthyBool(config.categories[category], "public")
         \/ /\ Has(config, "protected_categories")
            /\ Has(config.protected_categories, category)

\* isCategoryProtected as it would be without the test of config.enable.
isCategoryProtectedIgnoringEnable(config, category) ==
    IF config = Null THEN FALSE
    ELSE IF Has(config, "categories") /\ Has(config.categories, category)
         THEN ~TruthyBool(config.categories[category], "public")
    ELSE Has(config, "protected_categories")
         /\ Has(config.protected_categories, category)

\* isCategoryProtected (result read as a condition: undefined counts as false)
isCategoryProtected(config, category) ==
    IF config = Null \/ ~TruthyBool(config, "enable") THEN FALSE
    ELSE IF Has(config, "categories") /\ Has(config.categories, category)
         THEN ~TruthyBool(config.categories[category], "public")
    ELSE Has(config, "protected_categories")
         /\ Has(config.protected_categories, category)

\* verifyPassword throws when it reaches btoa with a non Latin-1 candidate.
verifyPasswordThrows(config, category, password) ==
    /\ config # Null
    /\ Has(config, "protected_categories")
    /\ Has(config.protected_categories, category)
    /\ TruthyString(config.protected_categories[category], "password_hash")
    /\ btoaThrows(password)

\* verifyPassword as it would be if the plaintext branch compared the
\* encoded candidate, as the password_hash branch does.
verifyPasswordEncodesPlaintext(config, category, password) ==
    IF config = Null THEN FALSE
    ELSE IF ~(Has(config, "protected_categories")
              /\ Has(config.protected_categories, category)) THEN FALSE
    ELSE LET protectedCat == config.protected_categories[category] IN
         IF TruthyString(protectedCat, "password_hash")
         THEN ~btoaThrows(password) /\ btoa(password) = protectedCat.password_hash
         ELSE IF TruthyString(protectedCat, "password")
         THEN ~btoaThrows(password) /\ btoa(password) = protectedCat.password
         ELSE FALSE

verifyPassword(config, category, password) ==
    IF config = Null THEN FALSE
    ELSE IF ~(Has(config, "protected_categories")
              /\ Has(config.protected_categories, category)) THEN FALSE
    ELSE LET protectedCat == config.protected_categories[category] IN
         IF TruthyString(protectedCat, "password_hash")
         THEN ~btoaThrows(password) /\ btoa(password) = protectedCat.password_hash
         ELSE IF TruthyString(protectedCat, "password")
         THEN password = protectedCat.password
         ELSE FALSE


\* ------------------------------------------------------------------------
\* URLs
\* ------------------------------------------------------------------------

\* "/"
Root == << >>
\* "/about"
About == << "about" >>
\* "/categories/diary/post-1"
DiaryPost == << "categories", "diary", "post-1" >>
\* "/categories/di%61ry" (the same category, percent-encoded)
DiaryEncoded == << "categories", "di%61ry" >>
\* "/categories/notes"
NotesIndex == << "categories", "notes" >>

\* "/categories/misc"
MiscIndex == << "categories", "misc" >>

\* The anchors of a page of the site, and the paths a visitor can open.
Links == { Root, About, DiaryPost, DiaryEncoded, NotesIndex, MiscIndex }

\* decodeURIComponent on the path segments of Links
decodeURIComponent(segment) ==
    IF segment = "di%61ry" THEN "diary" ELSE segment

\* The regular expression /\/categories\/([^\/]+)/ matches at the first
\* segment "categories" that is followed by a non-empty segment.
MatchIndexes(url) ==
    { i \in 1..(Len(url) - 1) : url[i] = "categories" /\ url[i + 1] # "" }

\* extractCategoryFromUrl as it would be without decodeURIComponent.
extractCategoryFromUrlUndecoded(url) ==
    IF MatchIndexes(url) = {} THEN ""
    ELSE LET i == CHOOSE k \in MatchIndexes(url) :
                      \A j \in MatchIndexes(url) : k <= j
         IN url[i + 1]

\* extractCategoryFromUrl: "" stands for the null result.
extractCategoryFromUrl(url) ==
    IF MatchIndexes(url) = {} THEN ""
    ELSE LET i == CHOOSE k \in MatchIndexes(url) :
                      \A j \in MatchIndexes(url) : k <= j
         IN decodeURIComponent(url[i + 1])

\* ------------------------------------------------------------------------
\* Clock and token cache
\* ------------------------------------------------------------------------

sessionTimeout == 3600000

\* The clock runs over the first MaxHours session lengths; the values next
\* to each multiple of sessionTimeout are the ones the expiry test separates.
MaxHours == 2
ClockValues == { k * sessionTimeout + j : k \in 0..MaxHours, j \in {0, 1} }

EmptyMap == [c \in {} |-> 0]

\* window.localStorage[storageKey]: never written, unparseable, or the JSON
\* text of a token mapping.
NoItem == [kind |-> "null", tokens |-> EmptyMap]
CorruptItem == [kind |-> "corrupt", tokens |-> EmptyMap]
JsonItem(tokens) == [kind |-> "json", tokens |-> tokens]

\* getStoredTokens: getItem throws when the storage is unavailable and
\* JSON.parse throws on a corrupt item; both are caught.
getStoredTokens(item, available) ==
    IF ~available THEN EmptyMap
    ELSE IF item.kind = "json" THEN item.tokens
    ELSE EmptyMap

\* localStorage.setItem throws when the storage is unavailable.
setItemThrows(available) == ~available

\* storeToken as it would be if the entry were not stamped with Date.now().
PutTokenUnstamped(tokens, category, token, t) ==
    [c \in (DOMAIN tokens) \cup {category} |->
        IF c = category THEN [token |-> token, timestamp |-> 0] ELSE tokens[c]]

\* tokens[category] = {token, timestamp}
PutToken(tokens, category, token, t) ==
    [c \in (DOMAIN tokens) \cup {category} |->
        IF c = category THEN [token |-> token, timestamp |-> t] ELSE tokens[c]]

\* delete tokens[category]
DeleteToken(tokens, category) ==
    [c \in (DOMAIN tokens) \ {category} |-> tokens[c]]

\* storeToken: the item written (when setItem does not throw)
storeToken(item, available, category, token, t) ==
    JsonItem(PutToken(getStoredTokens(item, available), category, token, t))

\* clearCategoryToken as it would be if it reset the whole mapping.
clearCategoryTokenClearsAll(item, available, category) ==
    JsonItem(EmptyMap)

\* clearCategoryToken: the item written (when setItem does not throw)
clearCategoryToken(item, available, category) ==
    JsonItem(DeleteToken(getStoredTokens(item, available), category))

\* The expiry test as it would be with >= for >.
TokenExpiredAtLimit(entry, t) == t - entry.timestamp >= sessionTimeout

\* hasCategoryAccess: the test "Date.now() - token.timestamp > sessionTimeout"
TokenExpired(entry, t) == t - entry.timestamp > sessionTimeout

\* hasCategoryAccess as it would be without the "return false" that follows
\* the purge: an expired entry is deleted and the call still answers true.
hasCategoryAccessForgetsReturn(item, available, category, t) ==
    category \in DOMAIN getStoredTokens(item, available)

\* hasCategoryAccess as it would be if it also looked at the credential
\* stored in the entry.
hasCategoryAccessChecksCredential(item, available, category, t) ==
    LET tokens == getStoredTokens(item, available) IN
    /\ category \in DOMAIN tokens
    /\ ~TokenExpired(tokens[category], t)
    /\ tokens[category].token = secretB64

\* hasCategoryAccess: its result
hasCategoryAccess(item, available, category, t) ==
    LET tokens == getStoredTokens(item, available) IN
    /\ category \in DOMAIN tokens
    /\ ~TokenExpired(tokens[category], t)

\* hasCategoryAccess: it reaches clearCategoryToken
hasCategoryAccessPurges(item, available, category, t) ==
    LET tokens == getStoredTokens(item, available) IN
    /\ category \in DOMAIN tokens
    /\ TokenExpired(tokens[category], t)

\* hasCategoryAccess: the item it leaves (when nothing throws)
hasCategoryAccessItem(item, available, category, t) ==
    IF hasCategoryAccessPurges(item, available, category, t)
    THEN clearCategoryToken(item, available, category)
    ELSE item

\* ------------------------------------------------------------------------
\* State
\* ------------------------------------------------------------------------

VARIABLES
    configScript,      \* the element #access-control-config of the site's pages
    config,            \* AccessControl.config
    location,          \* window.location.pathname of the page view
    view,              \* "Unchecked" before init, then "Resolved" or "Blocked"
    listening,         \* the document click listener is installed
    modal,             \* the overlay prompt appended by promptForAccess
    errorShown,        \* the prompt's .access-control-error is displayed
    navTo,             \* the navigation the page view has started
    storage,           \* localStorage item under storageKey
    storageAvailable,  \* FALSE: localStorage throws on every access
    now,               \* Date.now()
    last,              \* the handler that ran last and what it did
    tabPc,             \* per tab: where its cache write stands
    tabSnap,           \* per tab: the mapping its getStoredTokens returned
    tabOp              \* per tab: the cache write it is performing

pageVars == << config, location, view, listening, modal, errorShown, navTo >>
tabVars == << tabPc, tabSnap, tabOp >>
vars == << configScript, config, location, view, listening, modal, errorShown,
           navTo, storage, storageAvailable, now, last, tabPc, tabSnap, tabOp >>

NoModal == [open |-> FALSE, category |-> "", redirectUrl |-> Root]
OpenModal(category, redirectUrl) ==
    [open |-> TRUE, category |-> category, redirectUrl |-> redirectUrl]

NoNav == [kind |-> "none", url |-> Root]
NavHref(url) == [kind |-> "href", url |-> url]
NavReload == [kind |-> "reload", url |-> Root]

\* What a handler or a call did: checked = it called hasCategoryAccess,
\* access = that call's result, purged = that call reached
\* clearCategoryToken, prevented = e.preventDefault(), verified =
\* verifyPassword returned true, stored = storeToken returned, threw = it
\* ended in an uncaught exception, result = the value a direct call returned.
\* seq alternates, so that two runs of the same handler differ. prior is
\* what ran before: for a direct call of hasCategoryAccess the call before
\* it, for init the submission whose navigation loaded the page.
EventRecord(seq, op, category, url, password) ==
    [seq |-> seq, op |-> op, category |-> category, url |-> url,
     password |-> password,
     checked |-> FALSE, access |-> FALSE, purged |-> FALSE,
     prevented |-> FALSE, verified |-> FALSE, stored |-> FALSE,
     threw |-> FALSE, result |-> FALSE, prior |-> "other"]

Event(op, category, url, password) ==
    EventRecord(1 - last.seq, op, category, url, password)

NoEvent == EventRecord(0, "none", "", Root, empty)

Tabs == { 1, 2 }
IdleTabs ==
    /\ tabPc = [t \in Tabs |-> "idle"]
    /\ tabSnap = [t \in Tabs |-> EmptyMap]
    /\ tabOp = [t \in Tabs |-> [op |-> "none", category |-> "", token |-> empty]]

\* ------------------------------------------------------------------------
\* Site configurations
\* ------------------------------------------------------------------------

ScriptAbsent == [kind |-> "absent", value |-> Null]
ScriptMalformed == [kind |-> "malformed", value |-> Null]
ScriptJson(value) == [kind |-> "json", value |-> value]

\* {enable: true, protected_categories: {diary: {password: "secret"}}}
ScenarioConfig ==
    [enable |-> TRUE,
     protected_categories |-> ("diary" :> [password |-> secret])]

\* {enabled: true, protected_categories: {diary: {password: "secret"}}}
EnabledKeyConfig ==
    [enabled |-> TRUE,
     protected_categories |-> ("diary" :> [password |-> secret])]

\* {enable: false, categories: {notes: {public: false}},
\*  protected_categories: {diary: {password: "secret"}}}
DisabledConfig ==
    [enable |-> FALSE,
     categories |-> ("notes" :> [public |-> FALSE]),
     protected_categories |-> ("diary" :> [password |-> secret])]

\* {enable: true, categories: {misc: {public: false}},
\*  protected_categories: {diary: {password_hash: "c2VjcmV0", password: "wrong"},
\*                         notes: {password: "secret"}}}
HashConfig ==
    [enable |-> TRUE,
     categories |-> ("misc" :> [public |-> FALSE]),
     protected_categories |->
        ("diary" :> [password_hash |-> secretB64, password |-> wrong]
         @@ "notes" :> [password |-> secret])]

\* {enable: true, protected_categories: {diary: {password: "密"},
\*                                       notes: {password: "secret"}}}
WideConfig ==
    [enable |-> TRUE,
     protected_categories |->
        ("diary" :> [password |-> wide] @@ "notes" :> [password |-> secret])]

SiteScripts ==
    { ScriptAbsent, ScriptMalformed } \cup
    { ScriptJson(c) : c \in { ScenarioConfig, EnabledKeyConfig, DisabledConfig,
                              HashConfig, WideConfig } }

\* loadConfig as it would be if the fallback of the catch block enabled
\* gating.
loadConfigFallbackEnabled(script, old) ==
    IF script.kind = "absent" THEN old
    ELSE IF script.kind = "json" THEN script.value
    ELSE [enable |-> TRUE]

\* loadConfig: the value of this.config after it
loadConfig(script, old) ==
    IF script.kind = "absent" THEN old
    ELSE IF script.kind = "json" THEN script.value
    ELSE [enable |-> FALSE]

\* ------------------------------------------------------------------------
\* Page views
\* ------------------------------------------------------------------------

\* A document starts: the script is evaluated with config: null.
NewPageView(url) ==
    /\ location' = url
    /\ config' = Null
    /\ view' = "Unchecked"
    /\ listening' = FALSE
    /\ modal' = NoModal
    /\ errorShown' = FALSE
    /\ navTo' = NoNav

Init ==
    /\ configScript \in SiteScripts
    /\ location \in Links
    /\ config = Null
    /\ view = "Unchecked"
    /\ listening = FALSE
    /\ modal = NoModal
    /\ errorShown = FALSE
    /\ navTo = NoNav
    /\ storage = NoItem
    /\ storageAvailable = TRUE
    /\ now = 0
    /\ last = NoEvent
    /\ IdleTabs

\* The visitor opens a path of the site in the tab.
Visit(url) ==
    /\ navTo = NoNav
    /\ NewPageView(url)
    /\ last' = Event("visit", "", url, empty)
    /\ UNCHANGED << configScript, storage, storageAvailable, now, tabVars >>

\* The load as it would be if the page reloaded after a successful
\* submission came up resolved, without the load check.
LoadPageTrustsReload ==
    /\ navTo # NoNav
    /\ location' = (IF navTo.kind = "reload" THEN location ELSE navTo.url)
    /\ config' = Null
    /\ view' = IF navTo.kind = "reload" THEN "Resolved" ELSE "Unchecked"
    /\ listening' = FALSE
    /\ modal' = NoModal
    /\ errorShown' = FALSE
    /\ navTo' = NoNav
    /\ last' = Event("load", IF last.stored THEN last.category ELSE "",
                     IF navTo.kind = "reload" THEN location ELSE navTo.url, empty)
    /\ UNCHANGED << configScript, storage, storageAvailable, now, tabVars >>

\* The navigation a handler or a click started completes. The event keeps
\* the category of the submission that stored a token and started it.
LoadPage ==
    /\ navTo # NoNav
    /\ NewPageView(IF navTo.kind = "reload" THEN location ELSE navTo.url)
    /\ last' = Event("load", IF last.stored THEN last.category ELSE "",
                     IF navTo.kind = "reload" THEN location ELSE navTo.url, empty)
    /\ UNCHANGED << configScript, storage, storageAvailable, now, tabVars >>

\* init: loadConfig, setupEventListeners, checkCurrentPageAccess
InitPage ==
    /\ view = "Unchecked"
    /\ LET cfg == loadConfig(configScript, config)
           category == extractCategoryFromUrl(location)
           gated == category # "" /\ isCategoryProtected(cfg, category)
           access == hasCategoryAccess(storage, storageAvailable, category, now)
           purges == hasCategoryAccessPurges(storage, storageAvailable, category, now)
           throws == gated /\ purges /\ setItemThrows(storageAvailable)
       IN /\ config' = cfg
          /\ listening' = TRUE
          /\ storage' = IF gated /\ ~throws
                        THEN hasCategoryAccessItem(storage, storageAvailable, category, now)
                        ELSE storage
          \* showAccessDeniedOverlay: document.body.innerHTML = ''
          /\ view' = IF gated /\ ~throws /\ ~access THEN "Blocked" ELSE "Resolved"
          /\ last' = [Event("init", category, location, empty) EXCEPT
                         !.checked = gated, !.access = gated /\ access,
                         !.purged = gated /\ purges, !.threw = throws,
                         !.prior = IF last.op = "load" /\ last.category # ""
                                   THEN "storedSubmission" ELSE "other"]
    /\ UNCHANGED << configScript, location, modal, errorShown, navTo,
                    storageAvailable, now, tabVars >>

\* The anchors the visitor can click: the page's own while its content is
\* shown and no overlay covers it; in the Blocked rendering the body holds
\* only the prompt, whose one anchor is href="/".
Clickable ==
    IF view = "Blocked" THEN { Root }
    ELSE IF modal.open THEN {}
    ELSE Links

\* handleClick on an anchor with this href; a click that is not canceled
\* starts the browser's navigation to the href.
Click(href) ==
    /\ listening
    /\ navTo = NoNav
    /\ href \in Clickable
    /\ LET category == extractCategoryFromUrl(href)
           gated == category # "" /\ isCategoryProtected(config, category)
           access == hasCategoryAccess(storage, storageAvailable, category, now)
           purges == hasCategoryAccessPurges(storage, storageAvailable, category, now)
           throws == gated /\ purges /\ setItemThrows(storageAvailable)
           prevented == gated /\ ~throws /\ ~access
       IN /\ storage' = IF gated /\ ~throws
                        THEN hasCategoryAccessItem(storage, storageAvailable, category, now)
                        ELSE storage
          /\ modal' = IF prevented THEN OpenModal(category, href) ELSE modal
          /\ errorShown' = IF prevented THEN FALSE ELSE errorShown
          /\ navTo' = IF prevented THEN NoNav ELSE NavHref(href)
          /\ last' = [Event("click", category, href, empty) EXCEPT
                         !.checked = gated, !.access = gated /\ access,
                         !.purged = gated /\ purges,
                         !.prevented = prevented, !.threw = throws]
    /\ UNCHANGED << configScript, config, location, view, listening,
                    storageAvailable, now, tabVars >>

\* What submitPassword does up to and including storeToken, for both
\* prompts: verifyPassword, then btoa(password), then storeToken.
SubmitThrows(category, password) ==
    \/ verifyPasswordThrows(config, category, password)
    \/ /\ verifyPassword(config, category, password)
       /\ btoaThrows(password) \/ setItemThrows(storageAvailable)

\* submitPassword as it would be if it stored the token without looking at
\* the result of verifyPassword.
SubmitStoresUnverified(category, password) ==
    ~SubmitThrows(category, password)

SubmitStores(category, password) ==
    /\ ~SubmitThrows(category, password)
    /\ verifyPassword(config, category, password)

SubmitEvent(op, category, url, password) ==
    [Event(op, category, url, password) EXCEPT
        !.verified = ~verifyPasswordThrows(config, category, password)
                     /\ verifyPassword(config, category, password),
        !.stored = SubmitStores(category, password),
        !.threw = SubmitThrows(category, password)]

\* createPasswordModal.submitPassword as it would be if a success went on
\* to the href without persisting the token.
SubmitOverlayNavigatesOnly(password) ==
    /\ modal.open
    /\ navTo = NoNav
    /\ LET category == modal.category
           redirectUrl == modal.redirectUrl
           stores == SubmitStores(category, password)
           throws == SubmitThrows(category, password)
       IN /\ storage' = storage
          /\ modal' = IF stores THEN NoModal ELSE modal
          /\ navTo' = IF stores THEN NavHref(redirectUrl) ELSE navTo
          /\ errorShown' = IF stores THEN FALSE
                           ELSE IF throws THEN errorShown ELSE TRUE
          /\ last' = SubmitEvent("submitOverlay", category, redirectUrl, password)
    /\ UNCHANGED << configScript, config, location, view, listening,
                    storageAvailable, now, tabVars >>

\* createPasswordModal.submitPassword with this value in the input
SubmitOverlay(password) ==
    /\ modal.open
    /\ navTo = NoNav
    /\ LET category == modal.category
           redirectUrl == modal.redirectUrl
           stores == SubmitStores(category, password)
           throws == SubmitThrows(category, password)
       IN /\ storage' = IF stores
                        THEN storeToken(storage, storageAvailable, category,
                                        btoa(password), now)
                        ELSE storage
          \* closeModal(); if (redirectUrl) window.location.href = redirectUrl
          /\ modal' = IF stores THEN NoModal ELSE modal
          /\ navTo' = IF stores THEN NavHref(redirectUrl) ELSE navTo
          /\ errorShown' = IF stores THEN FALSE
                           ELSE IF throws THEN errorShown ELSE TRUE
          /\ last' = SubmitEvent("submitOverlay", category, redirectUrl, password)
    /\ UNCHANGED << configScript, config, location, view, listening,
                    storageAvailable, now, tabVars >>

\* closeModal as it would be if closing the prompt went on to the
\* intercepted href.
CloseOverlayNavigates ==
    /\ modal.open
    /\ navTo = NoNav
    /\ modal' = NoModal
    /\ errorShown' = FALSE
    /\ navTo' = NavHref(modal.redirectUrl)
    /\ last' = Event("close", modal.category, modal.redirectUrl, empty)
    /\ UNCHANGED << configScript, config, location, view, listening,
                    storage, storageAvailable, now, tabVars >>

\* createPasswordModal.closeModal, from the close button or the backdrop
CloseOverlay ==
    /\ modal.open
    /\ navTo = NoNav
    /\ modal' = NoModal
    /\ errorShown' = FALSE
    /\ last' = Event("close", modal.category, modal.redirectUrl, empty)
    /\ UNCHANGED << configScript, config, location, view, listening, navTo,
                    storage, storageAvailable, now, tabVars >>

\* showAccessDeniedOverlay.submitPassword as it would be if a success put
\* the page back in place instead of reloading it.
SubmitBlockedRestores(password) ==
    /\ view = "Blocked"
    /\ navTo = NoNav
    /\ LET category == extractCategoryFromUrl(location)
           stores == SubmitStores(category, password)
           throws == SubmitThrows(category, password)
       IN /\ storage' = IF stores
                        THEN storeToken(storage, storageAvailable, category,
                                        btoa(password), now)
                        ELSE storage
          /\ view' = IF stores THEN "Resolved" ELSE view
          /\ errorShown' = IF stores \/ throws THEN errorShown ELSE TRUE
          /\ last' = SubmitEvent("submitBlocked", category, location, password)
    /\ UNCHANGED << configScript, config, location, listening, modal, navTo,
                    storageAvailable, now, tabVars >>

\* showAccessDeniedOverlay.submitPassword with this value in the input
SubmitBlocked(password) ==
    /\ view = "Blocked"
    /\ navTo = NoNav
    /\ LET category == extractCategoryFromUrl(location)
           stores == SubmitStores(category, password)
           throws == SubmitThrows(category, password)
       IN /\ storage' = IF stores
                        THEN storeToken(storage, storageAvailable, category,
                                        btoa(password), now)
                        ELSE storage
          \* window.location.reload()
          /\ navTo' = IF stores THEN NavReload ELSE navTo
          /\ errorShown' = IF stores \/ throws THEN errorShown ELSE TRUE
          /\ last' = SubmitEvent("submitBlocked", category, location, password)
    /\ UNCHANGED << configScript, config, location, view, listening, modal,
                    storageAvailable, now, tabVars >>

\* Time passes.
Tick ==
    /\ \E t \in ClockValues : t > now /\ now' = t
    /\ UNCHANGED << configScript, pageVars, storage, storageAvailable, last,
                    tabVars >>

Next ==
    \/ \E url \in Links : Visit(url)
    \/ LoadPage
    \/ InitPage
    \/ \E href \in Links : Click(href)
    \/ \E password \in Passphrases : SubmitOverlay(password)
    \/ CloseOverlay
    \/ \E password \in Passphrases : SubmitBlocked(password)
    \/ Tick

Spec == Init /\ [][Next]_vars

\* ------------------------------------------------------------------------
\* The same page views over a storage that is corrupt or unavailable
\* ------------------------------------------------------------------------

InitStorage ==
    /\ configScript \in SiteScripts
    /\ location \in Links
    /\ config = Null
    /\ view = "Unchecked"
    /\ listening = FALSE
    /\ modal = NoModal
    /\ errorShown = FALSE
    /\ navTo = NoNav
    /\ storage \in { NoItem, CorruptItem }
    /\ storageAvailable \in BOOLEAN
    /\ now = 0
    /\ last = NoEvent
    /\ IdleTabs

SpecStorage == InitStorage /\ [][Next]_vars

\* ------------------------------------------------------------------------
\* Two tabs of the same origin writing the token cache. Within a tab a
\* handler runs to completion, but localStorage is shared between the tabs'
\* event loops: another tab's getItem or setItem can fall between the
\* getItem of getStoredTokens and the setItem that ends storeToken or
\* clearCategoryToken.
\* ------------------------------------------------------------------------

\* The cache writes a tab performs.
CacheWrites ==
    { [op |-> "storeToken", category |-> c, token |-> btoa(secret)] :
         c \in CategoryNames }
    \cup
    { [op |-> "clearCategoryToken", category |-> c, token |-> empty] :
         c \in CategoryNames }

\* The mapping a cache write serializes, from the mapping it read.
ApplyWrite(w, tokens, t) ==
    IF w.op = "storeToken" THEN PutToken(tokens, w.category, w.token, t)
    ELSE DeleteToken(tokens, w.category)

\* A cache the tabs find: empty, or holding a token for "notes".
InitTabs ==
    /\ configScript = ScriptJson(ScenarioConfig)
    /\ location = Root
    /\ config = ScenarioConfig
    /\ view = "Resolved"
    /\ listening = TRUE
    /\ modal = NoModal
    /\ errorShown = FALSE
    /\ navTo = NoNav
    /\ storage \in { NoItem,
                     JsonItem("notes" :> [token |-> btoa(secret), timestamp |-> 0]) }
    /\ storageAvailable = TRUE
    /\ now = 0
    /\ last = NoEvent
    /\ IdleTabs

\* storeToken / clearCategoryToken, first statement: tokens = getStoredTokens()
TabRead(t, w) ==
    /\ tabPc[t] = "idle"
    /\ tabPc' = [tabPc EXCEPT ![t] = "read"]
    /\ tabOp' = [tabOp EXCEPT ![t] = w]
    /\ tabSnap' = [tabSnap EXCEPT ![t] = getStoredTokens(storage, storageAvailable)]
    /\ UNCHANGED << configScript, pageVars, storage, storageAvailable, now, last >>

\* The item a tab would write if the read and the write were one atomic
\* step on the storage.
TabWritesAtomically(t) ==
    JsonItem(ApplyWrite(tabOp[t], getStoredTokens(storage, storageAvailable), now))

\* The item a tab's setItem writes: the mapping it read, with its change.
TabWrites(t) == JsonItem(ApplyWrite(tabOp[t], tabSnap[t], now))

\* storeToken / clearCategoryToken, the rest: change tokens, setItem
TabWrite(t) ==
    /\ tabPc[t] = "read"
    /\ storage' = TabWrites(t)
    /\ tabPc' = [tabPc EXCEPT ![t] = "done"]
    /\ last' = Event(tabOp[t].op, tabOp[t].category, Root, empty)
    /\ UNCHANGED << configScript, pageVars, storageAvailable, now, tabOp, tabSnap >>

NextTabs ==
    \/ \E t \in Tabs, w \in CacheWrites : TabRead(t, w)
    \/ \E t \in Tabs : TabWrite(t)
    \/ Tick

SpecTabs == InitTabs /\ [][NextTabs]_vars

\* ------------------------------------------------------------------------
\* The token cache on its own: hasCategoryAccess, storeToken and
\* clearCategoryToken called directly (window.AccessControl) in one tab,
\* over a cache those calls filled. Every step sets last, so the call
\* recorded in last is the one that ran immediately before.
\* ------------------------------------------------------------------------

\* The credentials direct calls store.
Credentials == { btoa(secret), btoa(wrong) }

InitCache ==
    /\ configScript \in { ScriptAbsent, ScriptJson(ScenarioConfig),
                          ScriptJson(HashConfig) }
    /\ config = loadConfig(configScript, Null)
    /\ location = Root
    /\ view = "Resolved"
    /\ listening = TRUE
    /\ modal = NoModal
    /\ errorShown = FALSE
    /\ navTo = NoNav
    /\ storage = NoItem
    /\ storageAvailable = TRUE
    /\ now = 0
    /\ last = NoEvent
    /\ IdleTabs

\* What the call before this one was, for a call of hasCategoryAccess.
PriorCall(category) ==
    IF last.op # "hasCategoryAccess" \/ last.category # category THEN "other"
    ELSE IF last.purged THEN "sameCallPurged"
    ELSE IF last.result THEN "sameCallGranted"
    ELSE "sameCallDenied"

\* AccessControl.hasCategoryAccess(category)
CallHasCategoryAccess(category) ==
    LET access == hasCategoryAccess(storage, storageAvailable, category, now)
        purges == hasCategoryAccessPurges(storage, storageAvailable, category, now)
        throws == purges /\ setItemThrows(storageAvailable)
    IN /\ storage' = IF throws THEN storage
                     ELSE hasCategoryAccessItem(storage, storageAvailable, category, now)
       /\ last' = [Event("hasCategoryAccess", category, Root, empty) EXCEPT
                      !.checked = TRUE, !.access = access, !.purged = purges,
                      !.threw = throws, !.result = access /\ ~throws,
                      !.prior = PriorCall(category)]
       /\ UNCHANGED << configScript, pageVars, storageAvailable, now, tabVars >>

\* AccessControl.storeToken(category, token)
CallStoreToken(category, token) ==
    /\ storage' = IF setItemThrows(storageAvailable) THEN storage
                  ELSE storeToken(storage, storageAvailable, category, token, now)
    /\ last' = [Event("storeToken", category, Root, token) EXCEPT
                   !.stored = ~setItemThrows(storageAvailable),
                   !.threw = setItemThrows(storageAvailable)]
    /\ UNCHANGED << configScript, pageVars, storageAvailable, now, tabVars >>

\* AccessControl.clearCategoryToken(category)
CallClearCategoryToken(category) ==
    /\ storage' = IF setItemThrows(storageAvailable) THEN storage
                  ELSE clearCategoryToken(storage, storageAvailable, category)
    /\ last' = [Event("clearCategoryToken", category, Root, empty) EXCEPT
                   !.threw = setItemThrows(storageAvailable)]
    /\ UNCHANGED << configScript, pageVars, storageAvailable, now, tabVars >>

\* Time passes between two calls.
AdvanceClock ==
    /\ \E t \in ClockValues : t > now /\ now' = t
    /\ last' = Event("tick", "", Root, empty)
    /\ UNCHANGED << configScript, pageVars, storage, storageAvailable, tabVars >>

NextCache ==
    \/ \E category \in CategoryNames : CallHasCategoryAccess(category)
    \/ \E category \in ConfigCategories, token \in Credentials :
          CallStoreToken(category, token)
    \/ \E category \in CategoryNames : CallClearCategoryToken(category)
    \/ AdvanceClock

SpecCache == InitCache /\ [][NextCache]_vars

\* ------------------------------------------------------------------------
\* The access evaluator on its own: isCategoryProtected and verifyPassword
\* called on every configuration of a bounded family.
\* ------------------------------------------------------------------------

\* The objects with at most the one key, its value from the set.
Opt(key, values) == { EmptyMap } \cup { key :> v : v \in values }

\* The objects whose keys are among the names, their values from the set.
MapsOver(names, values) == UNION { [D -> values] : D \in SUBSET names }

\* {public: true}, {public: false}, {}
CategoryEntries == Opt("public", BOOLEAN)

\* {password?: "" | "secret", password_hash?: "" | "c2VjcmV0"}
ProtectionRecords ==
    { p @@ h : p \in Opt("password", { empty, secret }),
               h \in Opt("password_hash", { empty, secretB64 }) }

EvaluatorConfigs ==
    { e @@ c @@ p :
        e \in Opt("enable", BOOLEAN),
        c \in Opt("categories", MapsOver(ConfigCategories, CategoryEntries)),
        p \in Opt("protected_categories",
                  MapsOver(ConfigCategories, ProtectionRecords)) }

InitEvaluator ==
    /\ configScript \in { ScriptAbsent, ScriptMalformed }
                        \cup { ScriptJson(c) : c \in EvaluatorConfigs }
    /\ config = loadConfig(configScript, Null)
    /\ location = Root
    /\ view = "Resolved"
    /\ listening = TRUE
    /\ modal = NoModal
    /\ errorShown = FALSE
    /\ navTo = NoNav
    /\ storage = NoItem
    /\ storageAvailable = TRUE
    /\ now = 0
    /\ last = NoEvent
    /\ IdleTabs

\* AccessControl.isCategoryProtected(category), called once on the
\* configuration drawn
CallIsCategoryProtected(category) ==
    /\ last = NoEvent
    /\ last' = [Event("isCategoryProtected", category, Root, empty) EXCEPT
                   !.result = isCategoryProtected(config, category)]
    /\ UNCHANGED << configScript, pageVars, storage, storageAvailable, now,
                    tabVars >>

\* AccessControl.verifyPassword(category, password), called once on the
\* configuration drawn
CallVerifyPassword(category, password) ==
    /\ last = NoEvent
    /\ last' = [Event("verifyPassword", category, Root, password) EXCEPT
                   !.threw = verifyPasswordThrows(config, category, password),
                   !.result = ~verifyPasswordThrows(config, category, password)
                              /\ verifyPassword(config, category, password)]
    /\ UNCHANGED << configScript, pageVars, storage, storageAvailable, now,
                    tabVars >>

NextEvaluator ==
    \/ \E category \in CategoryNames : CallIsCategoryProtected(category)
    \/ \E category \in CategoryNames, password \in Passphrases :
          CallVerifyPassword(category, password)

SpecEvaluator == InitEvaluator /\ [][NextEvaluator]_vars

\* ------------------------------------------------------------------------
\* Claims about the access evaluator (checked under SpecEvaluator)
\* ------------------------------------------------------------------------

GatingEnabled(cfg) == cfg # Null /\ TruthyBool(cfg, "enable")

\* category is a key of the protected-categories map
InProtectedMap(cfg, category) ==
    /\ cfg # Null
    /\ Has(cfg, "protected_categories")
    /\ Has(cfg.protected_categories, category)

\* category has an entry in the categories map
InCategoriesMap(cfg, category) ==
    /\ cfg # Null
    /\ Has(cfg, "categories")
    /\ Has(cfg.categories, category)

PlaintextOnly(cfg, category) ==
    /\ InProtectedMap(cfg, category)
    /\ Has(cfg.protected_categories[category], "password")
    /\ ~Has(cfg.protected_categories[category], "password_hash")

\* C2 as stated: when the protection record of C stores only a plaintext
\* passphrase x (the empty string included), verifyPassword(C, x) is true
\* and verifyPassword(C, y) is false for every y different from x.
C2_PlaintextAcceptsExactlyItself ==
    ( last.op = "verifyPassword" /\ PlaintextOnly(config, last.category) ) =>
        /\ ~last.threw
        /\ last.result <=>
              last.password = config.protected_categories[last.category].password

\* C10 as stated: a stored pre-encoded credential decides by
\* btoa(candidate) = stored, ignoring the plaintext field; otherwise a stored
\* plaintext credential decides by candidate = plaintext; with no record or
\* neither field the result is false. (Candidates btoa rejects are left out.)
C10_Precedence ==
    ( last.op = "verifyPassword" /\ ~btoaThrows(last.password) ) =>
        /\ ~last.threw
        /\ last.result <=>
              IF ~InProtectedMap(config, last.category) THEN FALSE
              ELSE LET record == config.protected_categories[last.category] IN
                   IF Has(record, "password_hash")
                   THEN btoa(last.password) = record.password_hash
                   ELSE IF Has(record, "password")
                   THEN last.password = record.password
                   ELSE FALSE

\* ------------------------------------------------------------------------
\* Claims about page views (checked under Spec)
\* ------------------------------------------------------------------------

\* The step runs the handler op (last.seq alternates with every handler).
HandlerStep(op) == last'.seq # last.seq /\ last'.op = op

\* The persisted mapping as a healthy storage yields it.
Tokens(item) == IF item.kind = "json" THEN item.tokens ELSE EmptyMap

\* C3: for a token of category C issued at time T, an evaluation of
\* hasCategoryAccess(C) (by the load check or by a click) is true at every
\* time <= T + sessionTimeout and false at every later time; the false
\* result removes the entry of C from the persisted mapping and the true
\* result leaves the mapping as it is; an entry leaves the mapping only in
\* such an evaluation that found it expired, never when only time passes.
C3_ExpiryOnRead ==
    [][ /\ \A C \in CategoryNames :
             ( /\ HandlerStep("init") \/ HandlerStep("click")
               /\ last'.checked
               /\ last'.category = C
               /\ C \in DOMAIN Tokens(storage) )
             => LET T == Tokens(storage)[C].timestamp IN
                /\ last'.access <=> (now <= T + sessionTimeout)
                /\ last'.access => storage' = storage
                /\ ~last'.access =>
                      Tokens(storage') = DeleteToken(Tokens(storage), C)
        /\ now' # now => storage' = storage
        /\ \A C \in DOMAIN Tokens(storage) :
             C \notin DOMAIN Tokens(storage') =>
                /\ HandlerStep("init") \/ HandlerStep("click")
                /\ last'.checked /\ last'.category = C
                /\ now > Tokens(storage)[C].timestamp + sessionTimeout
      ]_vars

\* C3 witness: an evaluation found the token of its category expired and
\* purged it, while the token of another category stayed.
C3_Witness ==
    /\ last.op \in { "init", "click" }
    /\ last.checked /\ last.purged /\ ~last.access
    /\ last.category \notin DOMAIN Tokens(storage)
    /\ DOMAIN Tokens(storage) # {}

\* C4: when gating is disabled in the configuration (enable is not true, or
\* no configuration was loaded), whatever protected_categories and
\* categories list, no click is canceled, no prompt is open and the page
\* view is never Blocked.
C4_DisabledNeverGates ==
    ( view # "Unchecked" /\ ~GatingEnabled(config) ) =>
        /\ view = "Resolved"
        /\ ~modal.open
        /\ ~last.prevented
        /\ last.op = "click" => navTo = NavHref(last.url)

\* C4 witness: under the disabled configuration that lists "diary" as
\* protected, a click on a diary link went through.
C4_Witness ==
    /\ config = DisabledConfig
    /\ last.op = "click" /\ last.category = "diary"
    /\ navTo = NavHref(DiaryPost)

\* The scenario of C5 under the configuration of this script: a click on
\* /categories/diary/post-1 with no stored token for "diary" is canceled and
\* opens the prompt for that href; submitting "secret" to that prompt stores
\* the token of "diary" and starts the navigation to that href, the token
\* being in the storage when the navigation starts.
ClickThenSecretScenario(script) ==
        configScript = script =>
          /\ ( /\ HandlerStep("click")
               /\ last'.url = DiaryPost
               /\ "diary" \notin DOMAIN Tokens(storage) )
             => /\ last'.prevented
                /\ navTo' = NoNav
                /\ modal' = OpenModal("diary", DiaryPost)
          /\ ( /\ HandlerStep("submitOverlay")
               /\ modal = OpenModal("diary", DiaryPost)
               /\ last'.password = secret )
             => /\ Tokens(storage') =
                      PutToken(Tokens(storage), "diary", btoa(secret), now)
                /\ ~modal'.open
                /\ navTo' = NavHref(DiaryPost)

\* C5 as stated: with {enabled: true, protected_categories: {"diary":
\* {password: "secret"}}} and no stored token, a click on
\* /categories/diary/post-1 is canceled and a prompt appears; entering
\* "secret" stores a token for "diary" and then navigates to that href.
C5_AsStated == [][ClickThenSecretScenario(ScriptJson(EnabledKeyConfig))]_vars

\* C5 amended: the same scenario with the flag the code reads,
\* {enable: true, protected_categories: {"diary": {password: "secret"}}}.
C5_EnableKeyScenario == [][ClickThenSecretScenario(ScriptJson(ScenarioConfig))]_vars

\* C5 witness: under {enable: true, ...} the prompt for
\* /categories/diary/post-1 took "secret", the token of "diary" is stored
\* and the navigation to that href has started.
C5_Witness ==
    /\ config = ScenarioConfig
    /\ last.op = "submitOverlay" /\ last.password = secret /\ last.stored
    /\ "diary" \in DOMAIN Tokens(storage)
    /\ Tokens(storage)["diary"].token = btoa(secret)
    /\ navTo = NavHref(DiaryPost)

\* The passphrase is the one the configuration sets for the category: its
\* encoding equals the stored pre-encoded credential, or, when none is
\* stored, it equals the stored plaintext credential.
CorrectPassphrase(cfg, category, password) ==
    /\ InProtectedMap(cfg, category)
    /\ LET record == cfg.protected_categories[category] IN
       IF Has(record, "password_hash")
       THEN ~btoaThrows(password) /\ btoa(password) = record.password_hash
       ELSE Has(record, "password") /\ password = record.password

\* The storage holds a token of the category that has not expired.
ValidToken(item, category, t) ==
    /\ category \in DOMAIN Tokens(item)
    /\ t <= Tokens(item)[category].timestamp + sessionTimeout

\* The lifecycle of C6 for the passphrases of the set: a load of a page of a
\* protected category with no valid token ends Blocked; a Blocked submission
\* of a passphrase that is not the configured one shows the inline error,
\* starts no navigation and leaves the storage alone; a Blocked submission
\* of the configured passphrase stores the token and starts the reload.
BlockedLifecycle(passphrases) ==
    LET category == extractCategoryFromUrl(location) IN
    /\ ( /\ HandlerStep("init")
         /\ category # ""
         /\ isCategoryProtected(config', category)
         /\ ~ValidToken(storage, category, now) )
       => view' = "Blocked"
    /\ ( /\ HandlerStep("submitBlocked")
         /\ last'.password \in passphrases
         /\ ~CorrectPassphrase(config, category, last'.password) )
       => /\ errorShown'
          /\ navTo' = NoNav
          /\ storage' = storage
    /\ ( /\ HandlerStep("submitBlocked")
         /\ last'.password \in passphrases
         /\ CorrectPassphrase(config, category, last'.password) )
       => /\ Tokens(storage') =
                PutToken(Tokens(storage), category, btoa(last'.password), now)
          /\ navTo' = NavReload

\* C6 as stated: a page of a protected category loaded with no valid token
\* enters Blocked; there a wrong passphrase shows the inline error, starts
\* no navigation or reload and stores no token, and the correct passphrase
\* stores a token for the category and then reloads the page.
C6_BlockedLifecycle == [][BlockedLifecycle(Passphrases)]_vars

\* The same lifecycle when every passphrase typed is in Latin-1 (btoa
\* accepts it): this part the code keeps.
BlockedLifecycleLatin1 ==
    [][BlockedLifecycle({ p \in Passphrases : ~btoaThrows(p) })]_vars

Handlers == { "init", "click", "submitOverlay", "submitBlocked", "close" }

\* C8 as stated: while the persisted mapping is corrupt or the storage is
\* unavailable, every access evaluation finds the cache empty and no handler
\* (load check, click, submissions, which call getStoredTokens,
\* hasCategoryAccess, storeToken, clearCategoryToken) ends in an uncaught
\* error. (Passphrases btoa rejects are left out.)
C8_StorageFaultsDegrade ==
    [][ ( /\ \E op \in Handlers : HandlerStep(op)
          /\ ~storageAvailable \/ storage = CorruptItem
          /\ ~btoaThrows(last'.password) )
        => /\ ~last'.threw
           /\ last'.checked => ~last'.access
      ]_vars

\* ------------------------------------------------------------------------
\* Claim about two tabs (checked under SpecTabs)
\* ------------------------------------------------------------------------

\* The write changes the mapping the tab read.
Effective(w, tokens) ==
    IF w.op = "storeToken" THEN w.category \notin DOMAIN tokens
    ELSE w.category \in DOMAIN tokens

\* The persisted mapping does not show the tab's write.
Lacks(t) ==
    IF tabOp[t].op = "storeToken"
    THEN tabOp[t].category \notin DOMAIN Tokens(storage)
    ELSE tabOp[t].category \in DOMAIN Tokens(storage)

\* Both tabs completed a write, for different categories, each from the
\* same mapping (neither read the other's write), each changing it.
InterleavedWrites ==
    /\ \A t \in Tabs : tabPc[t] = "done"
    /\ tabOp[1].category # tabOp[2].category
    /\ tabSnap[1] = tabSnap[2]
    /\ \A t \in Tabs : Effective(tabOp[t], tabSnap[t])

\* The persisted mapping is the one the tab serialized: the mapping it
\* read, with its own change and nothing else.
WroteFrom(t) ==
    IF tabOp[t].op = "storeToken"
    THEN /\ DOMAIN Tokens(storage) = (DOMAIN tabSnap[t]) \cup { tabOp[t].category }
         /\ \A c \in DOMAIN tabSnap[t] : Tokens(storage)[c] = tabSnap[t][c]
         /\ Tokens(storage)[tabOp[t].category].token = tabOp[t].token
    ELSE Tokens(storage) = DeleteToken(tabSnap[t], tabOp[t].category)

\* C9: a cache write is a read of the whole mapping followed by a write of
\* the whole mapping, so when two tabs' writes for different categories
\* interleave (both read before either writes), the persisted mapping ends
\* as one tab serialized it and lacks the update of the other tab.
C9_InterleavedWritesLoseOne ==
    InterleavedWrites =>
        \E t, u \in Tabs : t # u /\ WroteFrom(t) /\ Lacks(u)

\* C9 witness: both tabs completed a storeToken, for different categories,
\* and the persisted mapping has no entry for the category of tab 1.
C9_Witness ==
    /\ InterleavedWrites
    /\ tabOp[1].op = "storeToken" /\ tabOp[2].op = "storeToken"
    /\ tabOp[1].category \notin DOMAIN Tokens(storage)
    /\ tabOp[2].category \in DOMAIN Tokens(storage)

\* ------------------------------------------------------------------------
\* C11..C20
\* ------------------------------------------------------------------------

\* A direct call of hasCategoryAccess that immediately follows a call of
\* hasCategoryAccess for the same category: nothing ran in between, the
\* clock included.
RepeatedAccessCall ==
    /\ HandlerStep("hasCategoryAccess")
    /\ last.op = "hasCategoryAccess"
    /\ last'.category = last.category

\* C11: hasCategoryAccess(C) called twice in immediate succession (same
\* clock value, no other write in between) returns the same result both
\* times, and the second call leaves the persisted cache unchanged, also
\* when the first call purged an expired entry.
C11_AccessCheckIdempotent ==
    [][RepeatedAccessCall =>
          /\ last'.result = last.result
          /\ ~last'.purged
          /\ storage' = storage]_vars

\* C11 witness: the second of two successive calls has returned, and the
\* first of them purged an expired entry.
C11_Witness ==
    /\ last.op = "hasCategoryAccess"
    /\ last.prior = "sameCallPurged"
    /\ ~last.result
    /\ last.category \notin DOMAIN Tokens(storage)

\* The category that the /categories/<name> segment of each href names
\* ("" for an href without such a segment).
LinkCategory(href) ==
    CASE href = DiaryPost -> "diary"
      [] href = DiaryEncoded -> "diary"
      [] href = NotesIndex -> "notes"
      [] href = MiscIndex -> "misc"
      [] OTHER -> ""

\* The click on href is to be intercepted: its href names a category that
\* is protected and has no valid unexpired token.
ProtectedAndInaccessible(href) ==
    /\ LinkCategory(href) # ""
    /\ isCategoryProtected(config, LinkCategory(href))
    /\ ~ValidToken(storage, LinkCategory(href), now)

\* C12: a click on an anchor cancels the default navigation and opens the
\* overlay prompt (for the href's category, with the href as its redirect)
\* exactly when the href names a category that is protected and for which
\* hasCategoryAccess is false; in every other case the navigation goes on
\* and no prompt is opened. A click that finds an expired token of a
\* protected category removes it and is intercepted.
C12_ClickInterception ==
    [][HandlerStep("click") =>
          /\ ProtectedAndInaccessible(last'.url) =>
                /\ last'.prevented
                /\ modal' = OpenModal(LinkCategory(last'.url), last'.url)
                /\ navTo' = NoNav
          /\ ~ProtectedAndInaccessible(last'.url) =>
                /\ ~last'.prevented
                /\ modal' = modal /\ ~modal'.open
                /\ navTo' = NavHref(last'.url)
                /\ storage' = storage
          /\ ( /\ ProtectedAndInaccessible(last'.url)
               /\ LinkCategory(last'.url) \in DOMAIN Tokens(storage) ) =>
                /\ last'.purged
                /\ Tokens(storage') =
                      DeleteToken(Tokens(storage), LinkCategory(last'.url))]_vars

\* C12 witness: a click on the percent-encoded link of a protected
\* category found an expired token; the token is gone and the prompt for
\* the category is open.
C12_Witness ==
    /\ last.op = "click" /\ last.url = DiaryEncoded
    /\ last.purged /\ last.prevented
    /\ modal = OpenModal("diary", DiaryEncoded)
    /\ "diary" \notin DOMAIN Tokens(storage)
    /\ navTo = NoNav

\* A submission step of either prompt in which verifyPassword returned
\* false for the value submitted.
FailedSubmission(op, category) ==
    /\ HandlerStep(op)
    /\ ~verifyPasswordThrows(config, category, last'.password)
    /\ ~verifyPassword(config, category, last'.password)

\* A submission step of either prompt in which verifyPassword returned true.
CorrectSubmission(op, category) ==
    /\ HandlerStep(op)
    /\ ~verifyPasswordThrows(config, category, last'.password)
    /\ verifyPassword(config, category, last'.password)

\* What submitPassword does with the cache on a correct submission; it does
\* not refer to the error shown by earlier failures.
CorrectSubmissionStores(category) ==
    /\ last'.stored = ~btoaThrows(last'.password)
    /\ Tokens(storage') =
          IF btoaThrows(last'.password) THEN Tokens(storage)
          ELSE PutToken(Tokens(storage), category, btoa(last'.password), now)

\* C13: a failed submission (verifyPassword false), in the overlay prompt
\* and in the Blocked prompt alike, leaves the token cache unchanged, starts
\* no navigation and no reload and leaves the same prompt open, with the
\* inline error, ready for another submission, however many failures came
\* before; a correct submission does the same whether or not failures came
\* before it.
C13_FailedSubmissionFrame ==
    [][/\ FailedSubmission("submitOverlay", modal.category) =>
             /\ storage' = storage
             /\ navTo' = NoNav
             /\ modal' = modal /\ modal'.open
             /\ view' = view
             /\ errorShown'
       /\ FailedSubmission("submitBlocked", extractCategoryFromUrl(location)) =>
             /\ storage' = storage
             /\ navTo' = NoNav
             /\ view' = "Blocked"
             /\ errorShown'
       /\ CorrectSubmission("submitOverlay", modal.category) =>
             /\ CorrectSubmissionStores(modal.category)
             /\ last'.stored =>
                   ~modal'.open /\ navTo' = NavHref(modal.redirectUrl)
       /\ CorrectSubmission("submitBlocked", extractCategoryFromUrl(location)) =>
             /\ CorrectSubmissionStores(extractCategoryFromUrl(location))
             /\ last'.stored => navTo' = NavReload]_vars

\* C13 witness: in a Blocked page view a correct submission has stored the
\* token and started the reload after a failed submission had shown the
\* inline error.
C13_Witness ==
    /\ last.op = "submitBlocked" /\ last.stored
    /\ errorShown
    /\ view = "Blocked"
    /\ navTo = NavReload
    /\ extractCategoryFromUrl(location) \in DOMAIN Tokens(storage)

\* C14: Blocked is terminal within a page view: once the body has been
\* replaced, no step of that page view (a failed or successful submission,
\* a click, the passing of time) brings the original content back; the
\* view leaves Blocked only when a new page is loaded (the reload after a
\* success, a started navigation, or a visit), and then starts over
\* unchecked.
C14_BlockedIsTerminal ==
    [][view = "Blocked" =>
          \/ view' = "Blocked"
          \/ /\ HandlerStep("load") \/ HandlerStep("visit")
             /\ view' = "Unchecked"]_vars

\* C14 witness: a Blocked page view in which the correct passphrase was
\* submitted at the first attempt: the token is stored, the reload is
\* started and the body is still the Blocked one.
C14_Witness ==
    /\ view = "Blocked"
    /\ last.op = "submitBlocked" /\ last.stored
    /\ ~errorShown
    /\ navTo = NavReload

\* C15: closing the overlay prompt (close button or backdrop) abandons the
\* pending navigation: the overlay is removed, the page under it is as it
\* was (same location, same content, listener still installed), no
\* navigation to the intercepted href starts, and the token cache is
\* unchanged.
C15_CloseAbandonsNavigation ==
    [][HandlerStep("close") =>
          /\ modal.open /\ ~modal'.open
          /\ last'.url = modal.redirectUrl
          /\ navTo' = NoNav
          /\ location' = location /\ view' = view /\ view' = "Resolved"
          /\ listening' = listening /\ config' = config
          /\ storage' = storage]_vars

\* C15 witness: the prompt opened by the click on the diary post was
\* closed; the page is the one that was clicked on, resolved as before, and
\* the cache has no token for the category.
C15_Witness ==
    /\ last.op = "close" /\ last.url = DiaryPost
    /\ ~modal.open
    /\ navTo = NoNav
    /\ view = "Resolved"
    /\ "diary" \notin DOMAIN Tokens(storage)
    /\ location # DiaryPost

\* The entries of the categories other than this one are the same before
\* and after the step.
OthersUnchanged(category) ==
    /\ DOMAIN Tokens(storage') \ { category } = DOMAIN Tokens(storage) \ { category }
    /\ \A c \in DOMAIN Tokens(storage) \ { category } :
          Tokens(storage')[c] = Tokens(storage)[c]

\* C16: in one tab, with a readable persisted mapping, storeToken(C, t)
\* changes only the entry of C, which becomes {t, current time};
\* clearCategoryToken(C) removes only the entry of C; and the entries of
\* the other categories are left as they were by both and by the purge of
\* an expired entry in hasCategoryAccess(C).
C16_WritesTouchOneEntry ==
    [][/\ HandlerStep("storeToken") =>
             /\ last'.category \in DOMAIN Tokens(storage')
             /\ Tokens(storage')[last'.category] =
                   [token |-> last'.password, timestamp |-> now]
             /\ OthersUnchanged(last'.category)
       /\ HandlerStep("clearCategoryToken") =>
             /\ last'.category \notin DOMAIN Tokens(storage')
             /\ OthersUnchanged(last'.category)
       /\ HandlerStep("hasCategoryAccess") =>
             /\ OthersUnchanged(last'.category)
             /\ last'.purged =>
                   last'.category \notin DOMAIN Tokens(storage')
             /\ ~last'.purged => storage' = storage]_vars

\* C16 witness: hasCategoryAccess purged the expired entry of one category
\* while the cache held an entry of another category, which is still there.
C16_Witness ==
    /\ last.op = "hasCategoryAccess" /\ last.purged
    /\ last.category = "diary"
    /\ "diary" \notin DOMAIN Tokens(storage)
    /\ "notes" \in DOMAIN Tokens(storage)
    /\ Tokens(storage)["notes"].timestamp = 0

\* The step leaves the category with an entry that it did not have before
\* the step (a new entry, or another credential or timestamp).
EntryWritten(category) ==
    /\ category \in DOMAIN Tokens(storage')
    /\ \/ category \notin DOMAIN Tokens(storage)
       \/ Tokens(storage')[category] # Tokens(storage)[category]

\* C17: starting from an empty cache, with the widget as the only writer,
\* every entry is written by a submission that verifyPassword accepted: the
\* step that writes the entry of C is a submission, in the overlay or the
\* Blocked prompt, for C, of a value p for which verifyPassword(C, p) is
\* true under the configuration of the page view; the credential is the
\* encoding of p and the timestamp is the clock at the submission. No
\* other step (click, load check, failed submission, closing a prompt)
\* writes an entry.
C17_EntriesComeFromVerification ==
    [][\A category \in CategoryNames :
          EntryWritten(category) =>
             /\ HandlerStep("submitOverlay") \/ HandlerStep("submitBlocked")
             /\ last'.category = category
             /\ config = loadConfig(configScript, Null)
             /\ verifyPassword(config, category, last'.password)
             /\ ~btoaThrows(last'.password)
             /\ Tokens(storage')[category] =
                   [token |-> btoa(last'.password), timestamp |-> now]]_vars

\* C17 witness: the overlay submission of the configured passphrase, some
\* time after the page was opened, has written the entry of notes: the
\* base64 encoding of the passphrase, stamped with the clock.
C17_Witness ==
    /\ last.op = "submitOverlay" /\ last.stored /\ last.category = "notes"
    /\ now > 0
    /\ "notes" \in DOMAIN Tokens(storage)
    /\ Tokens(storage)["notes"] = [token |-> secretB64, timestamp |-> now]

\* The path of the page view lies in a category that the configuration the
\* load check runs with protects.
LocationProtected(cfg) ==
    /\ LinkCategory(location) # ""
    /\ isCategoryProtected(cfg, LinkCategory(location))

\* C18: a page view whose path lies in a protected category keeps its
\* original content only if the load check found a valid unexpired token
\* for the category, and ends Blocked otherwise, however the page view was
\* started (a visit, or the load of a started navigation: a link, the
\* redirect after an overlay success, the reload after a Blocked success);
\* no page view is resolved without the load check, which is the first
\* thing that runs in it.
C18_LoadCheckGatesEveryPageView ==
    [][/\ HandlerStep("init") =>
             /\ last.op \in { "none", "visit", "load" }
             /\ view = "Unchecked"
             /\ ( LocationProtected(config')
                  /\ ~ValidToken(storage, LinkCategory(location), now) )
                => view' = "Blocked"
             /\ ( LocationProtected(config')
                  /\ ValidToken(storage, LinkCategory(location), now) )
                => view' = "Resolved" /\ last'.access
             /\ ~LocationProtected(config') => view' = "Resolved"
       /\ (view' # view) =>
             \/ HandlerStep("init")
             \/ /\ HandlerStep("load") \/ HandlerStep("visit")
                /\ view' = "Unchecked"]_vars

\* C18 witness: the load of the percent-encoded page of a protected
\* category found a token that had expired: the token is purged and the
\* page view is Blocked.
C18_Witness ==
    /\ last.op = "init" /\ last.purged
    /\ location = DiaryEncoded
    /\ view = "Blocked"
    /\ "diary" \notin DOMAIN Tokens(storage)

\* C19: in one tab, a successful submission for C, in the overlay or the
\* Blocked prompt, has persisted the token of C, stamped with the clock,
\* when the navigation or the reload starts, and the page it starts is one
\* of C; the cache is not touched while the navigation is pending; so the
\* load check of the page view that follows finds the entry of C and, when
\* it runs no more than sessionTimeout after the submission, passes and
\* does not end Blocked.
C19_TokenPersistedBeforeNavigation ==
    [][/\ ( /\ HandlerStep("submitOverlay") \/ HandlerStep("submitBlocked")
            /\ last'.stored ) =>
             /\ last'.category \in DOMAIN Tokens(storage')
             /\ Tokens(storage')[last'.category] =
                   [token |-> btoa(last'.password), timestamp |-> now]
             /\ navTo' # NoNav
             /\ LinkCategory(IF navTo'.kind = "reload" THEN location
                             ELSE navTo'.url) = last'.category
       /\ navTo # NoNav => storage' = storage
       /\ ( /\ HandlerStep("init")
            /\ last.op = "load" /\ last.category # "" ) =>
             /\ LinkCategory(location) = last.category
             /\ last.category \in DOMAIN Tokens(storage)
             /\ now - Tokens(storage)[last.category].timestamp <= sessionTimeout
                => view' = "Resolved" /\ last'.access]_vars

\* C19 witness: the page of notes, loaded by the navigation that a stored
\* submission started, passed its load check exactly sessionTimeout after
\* the submission.
C19_Witness ==
    /\ last.op = "init" /\ last.prior = "storedSubmission" /\ last.access
    /\ location = NotesIndex
    /\ view = "Resolved"
    /\ "notes" \in DOMAIN Tokens(storage)
    /\ now - Tokens(storage)["notes"].timestamp = sessionTimeout

\* The item with the credential of the category's entry replaced.
WithCredential(item, category, credential) ==
    JsonItem([Tokens(item) EXCEPT ![category].token = credential])

\* The verdict as a function of nothing but the presence of the entry and
\* its timestamp relative to the clock.
FreshEntry(category) ==
    /\ category \in DOMAIN Tokens(storage)
    /\ now - Tokens(storage)[category].timestamp <= sessionTimeout

\* C20: the verdict of hasCategoryAccess(C) and its effect on the cache
\* depend only on whether the mapping has an entry for C and on the entry's
\* timestamp relative to the clock: every call returns true exactly when
\* the entry is there and not older than sessionTimeout, and deletes the
\* entry exactly when it is there and older, whatever the credential in the
\* entry and whatever the configuration; and in every state, replacing the
\* credential of an entry changes neither the verdict nor the purge, and
\* what the call leaves differs at most by that credential.
C20_VerdictIgnoresCredentialAndConfig ==
    [][/\ HandlerStep("hasCategoryAccess") =>
             /\ last'.result = FreshEntry(last'.category)
             /\ storage' =
                   IF last'.category \in DOMAIN Tokens(storage)
                      /\ ~FreshEntry(last'.category)
                   THEN JsonItem(DeleteToken(Tokens(storage), last'.category))
                   ELSE storage
       /\ \A category \in DOMAIN Tokens(storage) :
             \A credential \in Credentials \cup { empty } :
                LET other == WithCredential(storage, category, credential) IN
                /\ hasCategoryAccess(other, storageAvailable, category, now)
                      = hasCategoryAccess(storage, storageAvailable, category, now)
                /\ hasCategoryAccessPurges(other, storageAvailable, category, now)
                      = hasCategoryAccessPurges(storage, storageAvailable, category, now)
                /\ hasCategoryAccessItem(other, storageAvailable, category, now)
                      = IF hasCategoryAccessPurges(storage, storageAvailable, category, now)
                        THEN hasCategoryAccessItem(storage, storageAvailable, category, now)
                        ELSE other]_vars

\* C20 witness: with no configuration on the page (gating disabled), a call
\* has returned true for an entry whose credential is the encoding of a
\* passphrase that no configuration accepts.
C20_Witness ==
    /\ configScript = ScriptAbsent
    /\ last.op = "hasCategoryAccess" /\ last.result
    /\ last.category \in DOMAIN Tokens(storage)
    /\ Tokens(storage)[last.category].token = btoa(wrong)
    /\ now > Tokens(storage)[last.category].timestamp

=============================================================================
